---- MODULE Spec2Model ----
(***************************************************************************)
(* Model of the pokemon-challenge client: the Cache class, the request     *)
(* de-duplication of getPokemon / getMove over the shared activeRequests   *)
(* registry, and the rounds of getTwoRandomPokemons.                       *)
(*                                                                         *)
(* A JavaScript Map is a sequence of [key, value] records kept in the      *)
(* Map's iteration order (insertion order; overwriting a key keeps its     *)
(* position).                                                              *)
(***************************************************************************)
EXTENDS Integers, Sequences, FiniteSets

\* ------------------------------------------------------------------ bounds
\* Largest capacity a stand-alone Cache is constructed with (SpecCache).
MaxCapacity == 2
\* Number of get/set/clear calls made on the stand-alone Cache (SpecCache).
MaxOps == 6

\* Number of rounds of getTwoRandomPokemons that are started.
MaxRounds == 2
\* maxId of getTwoRandomPokemons (151 in the source), scaled down.
MaxId == 3
\* Capacities of pokemonCache (50 in the source) and moveCache (200), scaled
\* down so that eviction happens within MaxRounds rounds.
PokemonCacheSize == 2
MoveCacheSize == 1

\* Keys and values used to drive the stand-alone Cache.
CacheKeys == {"a", "b", "c", "d"}
CacheValues == {[type |-> "T", v |-> 1], [type |-> "T", v |-> 2]}

\* What Map.get yields for an absent key, and keys().next().value for an
\* empty Map.
Undefined == [type |-> "undefined"]
UndefinedKey == "undefined"

VARIABLES
  cache,        \* Cache.cache of the stand-alone Cache object
  maxSize,      \* Cache.maxSize of the stand-alone Cache object
  lastCall,     \* history: the last call made on it, with the contents before
  insertedAt,   \* history: key -> tick at which the held entry was inserted
  tick,         \* history: number of calls made so far
  everSet,      \* history: keys passed to set since construction
  cleared       \* history: clear() has been called

cvars == <<cache, maxSize, lastCall, insertedAt, tick, everSet, cleared>>

VARIABLES
  pokemonCache,       \* the Map of pokemonCache
  moveCache,          \* the Map of moveCache
  activeRequests,     \* the Map activeRequests: key -> index into promises
  promises,           \* the request promises made so far, one per axios.get
  rounds,             \* the calls of getTwoRandomPokemons, oldest first
  abortControllerRef, \* abortControllerRef.current: index into rounds, 0 = null
  pokemons,           \* useState pokemons
  loading,            \* useState loading
  error,              \* useState error
  lastWriter,         \* history: the round that last wrote pokemons/loading/error
  lastSettle          \* history: the request settled by the last step, if any

pvars == <<pokemonCache, moveCache, activeRequests, promises, rounds,
           abortControllerRef, pokemons, loading, error, lastWriter, lastSettle>>

VARIABLES
  battle        \* the arguments of a determineBattleOutcome call and its result

bvars == <<battle>>

vars == <<cvars, pvars, bvars>>

\* ------------------------------------------------------------ Map (ES2015)
MapKeys(m) == {m[i].key : i \in 1..Len(m)}

MapHas(m, k) == k \in MapKeys(m)

MapGet(m, k) ==
  IF MapHas(m, k)
    THEN (CHOOSE e \in {m[i] : i \in 1..Len(m)} : e.key = k).value
    ELSE Undefined

\* Map.set: an existing key keeps its position, a new key goes last.
MapSet(m, k, v) ==
  IF MapHas(m, k)
    THEN [i \in 1..Len(m) |-> IF m[i].key = k THEN [key |-> k, value |-> v] ELSE m[i]]
    ELSE Append(m, [key |-> k, value |-> v])

MapDelete(m, k) == SelectSeq(m, LAMBDA e : e.key # k)

\* this.cache.keys().next().value
MapFirstKey(m) == IF Len(m) = 0 THEN UndefinedKey ELSE m[1].key

\* A keys().next() that yields the newest key instead of the oldest.
MapLastKey(m) == IF Len(m) = 0 THEN UndefinedKey ELSE m[Len(m)].key

\* ------------------------------------------------------------------ Cache
CacheGet(c, k) == MapGet(c, k)

\* An eviction that picks the newest key of the Map.
CacheFirstKeyNewest(c, size) ==
  IF Len(c) >= size THEN MapLastKey(c) ELSE UndefinedKey

\* The local firstKey of Cache.set: the key it deletes (UndefinedKey when the
\* size test fails and nothing is deleted).
CacheFirstKey(c, size) ==
  IF Len(c) >= size THEN MapFirstKey(c) ELSE UndefinedKey

\* A set that never evicts.
CacheSetNoEvict(c, size, k, v) == MapSet(c, k, v)

\* Cache.set: at capacity the first key of the Map is deleted, whether or not
\* `key` is already held; then the Map is written.
CacheSet(c, size, k, v) ==
  LET c1 == IF Len(c) >= size THEN MapDelete(c, CacheFirstKey(c, size)) ELSE c
  IN  MapSet(c1, k, v)

CacheClear(c) == <<>>

\* ------------------------------------------------------------ the PokeAPI
Null == "null"
NoValue == [type |-> "none"]
NullPower == <<>>
\* the error of a failed request; ref stands for the identity of the object
NetworkError(ref) == [type |-> "error", message |-> "Network Error", ref |-> ref]
\* p.moves.length on an object without moves
TypeErrorMoves ==
  [type |-> "error", message |-> "Cannot read properties of undefined", ref |-> 0]
NoMovesAvailable == "No moves available"

Digit(d) ==
  CASE d = 0 -> "0" [] d = 1 -> "1" [] d = 2 -> "2" [] d = 3 -> "3" [] d = 4 -> "4"
    [] d = 5 -> "5" [] d = 6 -> "6" [] d = 7 -> "7" [] d = 8 -> "8" [] d = 9 -> "9"

RECURSIVE ToString(_)
\* id.toString()
ToString(n) == IF n < 10 THEN Digit(n) ELSE ToString(n \div 10) \o Digit(n % 10)

Ids == 1..MaxId

\* The names of the moves the API lists for a pokemon: pokemon 1 has none,
\* pokemon 2 has a move whose name is the decimal string of id 3.
Moves(id) ==
  IF id = 1 THEN <<>> ELSE IF id = 2 THEN <<"tackle", "3">> ELSE <<"tackle">>

\* res.data.power of a move
Power(name) == IF name = "tackle" THEN <<40>> ELSE NullPower

\* res.data of GET pokemon/{id}; ref stands for the identity of the object
PokemonData(id, ref) ==
  [type |-> "pokemon", name |-> ToString(id), moves |-> Moves(id), ref |-> ref]

\* the Move built from a response
MoveData(name, ref) ==
  [type |-> "move", name |-> name, power |-> Power(name), ref |-> ref]

Sentinel == [type |-> "move", name |-> NoMovesAvailable, power |-> NullPower, ref |-> 0]

\* ----------------------------------------------------- getPokemon, getMove
\* if (cached): every cached value is an object
Truthy(v) == v # Undefined

\* the requests for key k that have not settled
PendingFor(pr, k) == {i \in 1..Len(pr) : pr[i].key = k /\ pr[i].state = "pending"}

SeenPending(pr, k) == IF PendingFor(pr, k) = {} THEN 0 ELSE CHOOSE i \in PendingFor(pr, k) : TRUE

\* the latest request made for key k, 0 if there is none
LatestFor(pr, k) ==
  LET made == {i \in 1..Len(pr) : pr[i].key = k}
  IN  IF made = {} THEN 0 ELSE CHOOSE i \in made : \A j \in made : j <= i

\* What a caller holds after a call: the promise it awaits (pid = 0: a value
\* or an error it got at once), and, as history, what the call saw and did.
Handle(pid, value, fn, key, c, before, after) ==
  [pid |-> pid, value |-> value, fn |-> fn, key |-> key,
   cachedBefore |-> MapHas(c, key),
   cachedValue |-> MapGet(c, key),
   seen |-> SeenPending(before.pr, key),
   prior |-> LatestFor(before.pr, key),
   priorState |-> IF LatestFor(before.pr, key) = 0 THEN "none"
                  ELSE before.pr[LatestFor(before.pr, key)].state,
   started |-> Len(after.pr) - Len(before.pr),
   registered |-> after.ar # before.ar,
   seq |-> 0]

\* waiters: the callers whose promise follows this request, in the order in
\* which their reactions were registered
NewRequest(kind, key, id) ==
  [kind |-> kind, key |-> key, id |-> id, state |-> "pending", value |-> NoValue,
   waiters |-> <<>>, stale |-> FALSE]

\* A getPokemon that never looks at activeRequests.
GetPokemonNoJoin(h, id) ==
  LET cacheKey == ToString(id)
      cached == CacheGet(pokemonCache, cacheKey)
      pid == Len(h.pr) + 1
      h2 == [ar |-> MapSet(h.ar, cacheKey, pid),
             pr |-> Append(h.pr, NewRequest("pokemon", cacheKey, id))]
  IN  IF Truthy(cached)
        THEN [h |-> h, handle |-> Handle(0, cached, "getPokemon", cacheKey, pokemonCache, h, h)]
        ELSE [h |-> h2, handle |-> Handle(pid, NoValue, "getPokemon", cacheKey, pokemonCache, h, h2)]

\* A getPokemon that does not look into the cache.
GetPokemonNoCache(h, id) ==
  LET cacheKey == ToString(id)
      pid == Len(h.pr) + 1
      h2 == [ar |-> MapSet(h.ar, cacheKey, pid),
             pr |-> Append(h.pr, NewRequest("pokemon", cacheKey, id))]
  IN  IF MapHas(h.ar, cacheKey)
        THEN [h |-> h, handle |-> Handle(MapGet(h.ar, cacheKey), NoValue, "getPokemon",
                                          cacheKey, pokemonCache, h, h)]
        ELSE [h |-> h2, handle |-> Handle(pid, NoValue, "getPokemon", cacheKey, pokemonCache, h, h2)]

\* getPokemon(id), on the registry and promises h = [ar, pr]
GetPokemon(h, id) ==
  LET cacheKey == ToString(id)
      cached == CacheGet(pokemonCache, cacheKey)
      pid == Len(h.pr) + 1
      h2 == [ar |-> MapSet(h.ar, cacheKey, pid),
             pr |-> Append(h.pr, NewRequest("pokemon", cacheKey, id))]
  IN  IF Truthy(cached)
        THEN [h |-> h, handle |-> Handle(0, cached, "getPokemon", cacheKey, pokemonCache, h, h)]
      ELSE IF MapHas(h.ar, cacheKey)
        THEN [h |-> h, handle |-> Handle(MapGet(h.ar, cacheKey), NoValue, "getPokemon",
                                          cacheKey, pokemonCache, h, h)]
      ELSE [h |-> h2, handle |-> Handle(pid, NoValue, "getPokemon", cacheKey, pokemonCache, h, h2)]

\* A getMove that never looks at activeRequests.
GetMoveNoJoin(h, url, name) ==
  LET cached == CacheGet(moveCache, name)
      pid == Len(h.pr) + 1
      h2 == [ar |-> MapSet(h.ar, name, pid),
             pr |-> Append(h.pr, NewRequest("move", name, 0))]
  IN  IF Truthy(cached)
        THEN [h |-> h, handle |-> Handle(0, cached, "getMove", name, moveCache, h, h)]
        ELSE [h |-> h2, handle |-> Handle(pid, NoValue, "getMove", name, moveCache, h, h2)]

\* getMove(url, name); the url of a move is stood for by its name
\* A getMove that never looks at moveCache.
GetMoveNoCache(h, url, name) ==
  LET pid == Len(h.pr) + 1
      h2 == [ar |-> MapSet(h.ar, name, pid),
             pr |-> Append(h.pr, NewRequest("move", name, 0))]
  IN  IF MapHas(h.ar, name)
        THEN [h |-> h, handle |-> Handle(MapGet(h.ar, name), NoValue, "getMove",
                                          name, moveCache, h, h)]
      ELSE [h |-> h2, handle |-> Handle(pid, NoValue, "getMove", name, moveCache, h, h2)]

GetMove(h, url, name) ==
  LET cached == CacheGet(moveCache, name)
      pid == Len(h.pr) + 1
      h2 == [ar |-> MapSet(h.ar, name, pid),
             pr |-> Append(h.pr, NewRequest("move", name, 0))]
  IN  IF Truthy(cached)
        THEN [h |-> h, handle |-> Handle(0, cached, "getMove", name, moveCache, h, h)]
      ELSE IF MapHas(h.ar, name)
        THEN [h |-> h, handle |-> Handle(MapGet(h.ar, name), NoValue, "getMove",
                                          name, moveCache, h, h)]
      ELSE [h |-> h2, handle |-> Handle(pid, NoValue, "getMove", name, moveCache, h, h2)]

\* a promise that is settled when it is made (no call of a fetcher behind it)
Settled(value) ==
  [pid |-> 0, value |-> value, fn |-> "none", key |-> UndefinedKey,
   cachedBefore |-> FALSE, cachedValue |-> Undefined, seen |-> 0,
   prior |-> 0, priorState |-> "none", started |-> 0, seq |-> 0,
   registered |-> FALSE]

HandleState(pr, hd) ==
  IF hd.pid = 0
    THEN (IF hd.value.type = "error" THEN "rejected" ELSE "fulfilled")
    ELSE pr[hd.pid].state

HandleValue(pr, hd) == IF hd.pid = 0 THEN hd.value ELSE pr[hd.pid].value

\* history: the number of getPokemon / getMove calls made by the rounds rs
NCalls(rs) ==
  2 * Len(rs) +
  Cardinality({x \in (1..Len(rs)) \X (1..2) :
                 x[2] <= Len(rs[x[1]].mh) /\ rs[x[1]].mh[x[2]].fn # "none"})

\* history: the handle of the n-th call
Stamp(hd, n) == IF hd.fn = "none" THEN hd ELSE [hd EXCEPT !.seq = n]

\* The promise an async fetcher returns follows the request it returned: its
\* reaction is added to the request's reactions, after those already there.
Register(pr, hd) ==
  IF hd.pid = 0 THEN pr ELSE [pr EXCEPT ![hd.pid].waiters = Append(@, hd.seq)]

\* Promise.all(hs) has settled: one rejected, or all fulfilled
AllFulfilled(pr, hs) == \A i \in 1..Len(hs) : HandleState(pr, hs[i]) = "fulfilled"
Rejected(pr, hs) == {i \in 1..Len(hs) : HandleState(pr, hs[i]) = "rejected"}

\* ------------------------------------------------- determineBattleOutcome
NotComputed == "(not computed)"

\* String.prototype.toUpperCase, on the names used here
ToUpperCase(str) ==
  CASE str = "pikachu" -> "PIKACHU"
    [] str = "eevee" -> "EEVEE"
    [] str = "tackle" -> "TACKLE"
    [] str = "growl" -> "GROWL"
    [] OTHER -> str

\* BATTLE_MESSAGES.DECISIVE_BLOW
DecisiveBlow(winner, move, loser) ==
  ToUpperCase(winner) \o " lands a decisive blow with " \o ToUpperCase(move)
    \o ", knocking out " \o ToUpperCase(loser) \o "!"

\* BATTLE_MESSAGES.TIE
Tie == "It's a tie! Both Pokemon are evenly matched!"

\* A determineBattleOutcome that tests the powers for truthiness, so that a
\* power of 0 counts as absent.
DetermineBattleOutcomeFalsy(p1, p2) ==
  LET power1 == p1.move.power
      power2 == p2.move.power
      has1 == power1 # NullPower /\ power1[1] # 0
      has2 == power2 # NullPower /\ power2[1] # 0
  IN  IF has1 /\ has2
        THEN IF power1[1] > power2[1]
               THEN DecisiveBlow(p1.pokemon.name, p1.move.name, p2.pokemon.name)
             ELSE IF power2[1] > power1[1]
               THEN DecisiveBlow(p2.pokemon.name, p2.move.name, p1.pokemon.name)
             ELSE Tie
      ELSE IF ~has1 /\ has2
        THEN DecisiveBlow(p2.pokemon.name, p2.move.name, p1.pokemon.name)
      ELSE IF has1 /\ ~has2
        THEN DecisiveBlow(p1.pokemon.name, p1.move.name, p2.pokemon.name)
      ELSE Tie

\* determineBattleOutcome(p1, p2); a power is <<n>> or NullPower
DetermineBattleOutcome(p1, p2) ==
  LET power1 == p1.move.power
      power2 == p2.move.power
  IN  IF power1 # NullPower /\ power2 # NullPower
        THEN IF power1[1] > power2[1]
               THEN DecisiveBlow(p1.pokemon.name, p1.move.name, p2.pokemon.name)
             ELSE IF power2[1] > power1[1]
               THEN DecisiveBlow(p2.pokemon.name, p2.move.name, p1.pokemon.name)
             ELSE Tie
      ELSE IF power1 = NullPower /\ power2 # NullPower
        THEN DecisiveBlow(p2.pokemon.name, p2.move.name, p1.pokemon.name)
      ELSE IF power1 # NullPower /\ power2 = NullPower
        THEN DecisiveBlow(p1.pokemon.name, p1.move.name, p2.pokemon.name)
      ELSE Tie

\* The PokemonWithMove values the function is applied to.
BattlePowers == {NullPower, <<0>>, <<60>>, <<80>>, <<90>>}

BattleInputs ==
  {[pokemon |-> [name |-> n], move |-> [name |-> m, power |-> w]] :
     n \in {"pikachu", "eevee"}, m \in {"tackle", "growl"}, w \in BattlePowers}

NoBattle ==
  LET none == [pokemon |-> [name |-> "pikachu"], move |-> [name |-> "tackle", power |-> NullPower]]
  IN  [p1 |-> none, p2 |-> none, outcome |-> NotComputed]

\* battleOutcome = determineBattleOutcome(p1, p2)
Determine ==
  /\ battle.outcome = NotComputed
  /\ battle' = [battle EXCEPT !.outcome = DetermineBattleOutcome(battle.p1, battle.p2)]


\* ------------------------------------------- the stand-alone Cache object
NoStamps == [k \in CacheKeys |-> 0]

NoCall == [op |-> "new", key |-> UndefinedKey, result |-> Undefined,
           before |-> <<>>, firstKey |-> UndefinedKey, stamps |-> NoStamps]

InitCacheObject ==
  /\ cache = <<>>
  /\ lastCall = NoCall
  /\ insertedAt = NoStamps
  /\ tick = 0
  /\ everSet = {}
  /\ cleared = FALSE

\* cache.get(key)
Get(k) ==
  /\ tick < MaxOps
  /\ tick' = tick + 1
  /\ lastCall' = [op |-> "get", key |-> k, result |-> CacheGet(cache, k),
                  before |-> cache, firstKey |-> UndefinedKey, stamps |-> insertedAt]
  /\ UNCHANGED <<cache, maxSize, insertedAt, everSet, cleared>>

\* cache.set(key, value)
Set(k, v) ==
  /\ tick < MaxOps
  /\ tick' = tick + 1
  /\ cache' = CacheSet(cache, maxSize, k, v)
  /\ lastCall' = [op |-> "set", key |-> k, result |-> v, before |-> cache,
                  firstKey |-> CacheFirstKey(cache, maxSize), stamps |-> insertedAt]
  \* k enters the Map anew unless it is held and was not the key deleted
  /\ insertedAt' = [insertedAt EXCEPT ![k] =
                      IF MapHas(cache, k) /\ CacheFirstKey(cache, maxSize) # k
                        THEN @ ELSE tick + 1]
  /\ everSet' = everSet \cup {k}
  /\ UNCHANGED <<maxSize, cleared>>

\* cache.clear()
Clear ==
  /\ tick < MaxOps
  /\ tick' = tick + 1
  /\ cache' = CacheClear(cache)
  /\ lastCall' = [op |-> "clear", key |-> UndefinedKey, result |-> Undefined,
                  before |-> cache, firstKey |-> UndefinedKey, stamps |-> insertedAt]
  /\ cleared' = TRUE
  /\ UNCHANGED <<maxSize, insertedAt, everSet>>

NextCache ==
  /\ \/ \E k \in CacheKeys : Get(k)
     \/ \E k \in CacheKeys, v \in CacheValues : Set(k, v)
     \/ Clear
  /\ UNCHANGED <<pvars, bvars>>

\* ------------------------------------------------- the component's rounds
NoSettle == [pid |-> 0, ok |-> FALSE, key |-> UndefinedKey, kind |-> "none",
             notified |-> <<>>]

\* The module's caches and registry as constructed, the component before its
\* effect has run.
InitProgram ==
  /\ pokemonCache = <<>>
  /\ moveCache = <<>>
  /\ activeRequests = <<>>
  /\ promises = <<>>
  /\ rounds = <<>>
  /\ abortControllerRef = 0
  /\ pokemons = <<>>
  /\ loading = FALSE
  /\ error = Null
  /\ lastWriter = 0
  /\ lastSettle = NoSettle

\* abortControllerRef.current.abort(), when there is a current controller
Abort(rs, ref) == IF ref = 0 THEN rs ELSE [rs EXCEPT ![ref].aborted = TRUE]

\* A round start that leaves the error of the previous round on screen.
StartRoundKeepsError(id1, id2) ==
  /\ Len(rounds) < MaxRounds
  /\ id1 # id2
  /\ LET h0 == [ar |-> activeRequests, pr |-> promises]
         c1 == GetPokemon(h0, id1)
         c2 == GetPokemon(c1.h, id2)
         hd1 == Stamp(c1.handle, NCalls(rounds) + 1)
         hd2 == Stamp(c2.handle, NCalls(rounds) + 2)
         round == [ids |-> <<id1, id2>>, aborted |-> FALSE, pc |-> "awaitPokemons",
                   h |-> <<hd1, hd2>>, p |-> <<>>, mh |-> <<>>,
                   outcome |-> "none"]
     IN  /\ rounds' = Append(Abort(rounds, abortControllerRef), round)
         /\ abortControllerRef' = Len(rounds) + 1
         /\ activeRequests' = c2.h.ar
         /\ promises' = Register(Register(c2.h.pr, hd1), hd2)
         /\ lastWriter' = Len(rounds) + 1
  /\ loading' = TRUE
  /\ lastSettle' = NoSettle
  /\ UNCHANGED <<error, pokemonCache, moveCache, pokemons, cvars>>

\* getTwoRandomPokemons up to its first await: the previous round is aborted,
\* loading and error are written, two distinct ids are drawn and getPokemon is
\* called for each.
StartRound(id1, id2) ==
  /\ Len(rounds) < MaxRounds
  /\ id1 # id2
  /\ LET h0 == [ar |-> activeRequests, pr |-> promises]
         c1 == GetPokemon(h0, id1)
         c2 == GetPokemon(c1.h, id2)
         hd1 == Stamp(c1.handle, NCalls(rounds) + 1)
         hd2 == Stamp(c2.handle, NCalls(rounds) + 2)
         round == [ids |-> <<id1, id2>>, aborted |-> FALSE, pc |-> "awaitPokemons",
                   h |-> <<hd1, hd2>>, p |-> <<>>, mh |-> <<>>,
                   outcome |-> "none"]
     IN  /\ rounds' = Append(Abort(rounds, abortControllerRef), round)
         /\ abortControllerRef' = Len(rounds) + 1
         /\ activeRequests' = c2.h.ar
         /\ promises' = Register(Register(c2.h.pr, hd1), hd2)
         /\ lastWriter' = Len(rounds) + 1
  /\ loading' = TRUE
  /\ error' = Null
  /\ lastSettle' = NoSettle
  /\ UNCHANGED <<pokemonCache, moveCache, pokemons, cvars>>

\* Round r awaits a Promise.all that has settled: its continuation is queued
\* as a microtask.
Resumable(r) ==
  \/ /\ rounds[r].pc = "awaitPokemons"
     /\ (Rejected(promises, rounds[r].h) # {} \/ AllFulfilled(promises, rounds[r].h))
  \/ /\ rounds[r].pc = "awaitMoves"
     /\ (Rejected(promises, rounds[r].mh) # {} \/ AllFulfilled(promises, rounds[r].mh))

\* The microtask queue is empty: a response is delivered in a task of its
\* own, which the event loop starts only then.
MicrotasksDone == \A r \in 1..Len(rounds) : ~Resumable(r)

\* history: the round whose call started request pid has been aborted
StarterAborted(pid) ==
  \E r \in 1..Len(rounds) :
    /\ rounds[r].aborted
    /\ \E hd \in {rounds[r].h[i] : i \in 1..2} \cup
                  {rounds[r].mh[i] : i \in 1..Len(rounds[r].mh)} :
         hd.pid = pid /\ hd.started = 1

\* A then-callback that drops the response when the round that started the
\* request has been aborted.
SettleOkSkipsStale(pid) ==
  /\ pid \in 1..Len(promises)
  /\ promises[pid].state = "pending"
  /\ MicrotasksDone
  /\ LET rq == promises[pid]
         data == IF rq.kind = "pokemon" THEN PokemonData(rq.id, pid)
                                        ELSE MoveData(rq.key, pid)
     IN  /\ pokemonCache' = IF rq.kind = "pokemon" /\ ~StarterAborted(pid)
                              THEN CacheSet(pokemonCache, PokemonCacheSize, rq.key, data)
                              ELSE pokemonCache
         /\ moveCache' = IF rq.kind = "move" /\ ~StarterAborted(pid)
                           THEN CacheSet(moveCache, MoveCacheSize, rq.key, data)
                           ELSE moveCache
         /\ activeRequests' = MapDelete(activeRequests, rq.key)
         /\ promises' = [promises EXCEPT ![pid].state = "fulfilled", ![pid].value = data,
                                         ![pid].stale = StarterAborted(pid)]
         /\ lastSettle' = [pid |-> pid, ok |-> TRUE, key |-> rq.key, kind |-> rq.kind,
                           notified |-> rq.waiters]
  /\ UNCHANGED <<rounds, abortControllerRef, pokemons, loading, error, lastWriter, cvars>>

\* A then-callback that caches the response and leaves the registry entry.
SettleOkKeepsEntry(pid) ==
  /\ pid \in 1..Len(promises)
  /\ promises[pid].state = "pending"
  /\ MicrotasksDone
  /\ LET rq == promises[pid]
         data == IF rq.kind = "pokemon" THEN PokemonData(rq.id, pid)
                                        ELSE MoveData(rq.key, pid)
     IN  /\ pokemonCache' = IF rq.kind = "pokemon"
                              THEN CacheSet(pokemonCache, PokemonCacheSize, rq.key, data)
                              ELSE pokemonCache
         /\ moveCache' = IF rq.kind = "move"
                           THEN CacheSet(moveCache, MoveCacheSize, rq.key, data)
                           ELSE moveCache
         /\ promises' = [promises EXCEPT ![pid].state = "fulfilled", ![pid].value = data]
         /\ lastSettle' = [pid |-> pid, ok |-> TRUE, key |-> rq.key, kind |-> rq.kind,
                           notified |-> rq.waiters]
  /\ UNCHANGED <<activeRequests, rounds, abortControllerRef, pokemons, loading, error,
                 lastWriter, cvars>>

\* The then-callback of a request: the response is cached and the registry
\* entry deleted.
SettleOk(pid) ==
  /\ pid \in 1..Len(promises)
  /\ promises[pid].state = "pending"
  /\ MicrotasksDone
  /\ LET rq == promises[pid]
         data == IF rq.kind = "pokemon" THEN PokemonData(rq.id, pid)
                                        ELSE MoveData(rq.key, pid)
     IN  /\ pokemonCache' = IF rq.kind = "pokemon"
                              THEN CacheSet(pokemonCache, PokemonCacheSize, rq.key, data)
                              ELSE pokemonCache
         /\ moveCache' = IF rq.kind = "move"
                           THEN CacheSet(moveCache, MoveCacheSize, rq.key, data)
                           ELSE moveCache
         /\ activeRequests' = MapDelete(activeRequests, rq.key)
         /\ promises' = [promises EXCEPT ![pid].state = "fulfilled", ![pid].value = data,
                                         ![pid].stale = StarterAborted(pid)]
         /\ lastSettle' = [pid |-> pid, ok |-> TRUE, key |-> rq.key, kind |-> rq.kind,
                           notified |-> rq.waiters]
  /\ UNCHANGED <<rounds, abortControllerRef, pokemons, loading, error, lastWriter, cvars>>

\* A catch-callback that leaves the registry entry in place.
SettleErrorKeepsEntry(pid) ==
  /\ pid \in 1..Len(promises)
  /\ promises[pid].state = "pending"
  /\ MicrotasksDone
  /\ promises' = [promises EXCEPT ![pid].state = "rejected", ![pid].value = NetworkError(pid)]
  /\ lastSettle' = [pid |-> pid, ok |-> FALSE, key |-> promises[pid].key,
                    kind |-> promises[pid].kind, notified |-> promises[pid].waiters]
  /\ UNCHANGED <<pokemonCache, moveCache, activeRequests, rounds, abortControllerRef,
                 pokemons, loading, error, lastWriter, cvars>>

\* A catch-callback that caches the error under the key.
SettleErrorCachesFailure(pid) ==
  /\ pid \in 1..Len(promises)
  /\ promises[pid].state = "pending"
  /\ MicrotasksDone
  /\ pokemonCache' = IF promises[pid].kind = "pokemon"
                       THEN CacheSet(pokemonCache, PokemonCacheSize, promises[pid].key,
                                     NetworkError(pid))
                       ELSE pokemonCache
  /\ moveCache' = IF promises[pid].kind = "move"
                    THEN CacheSet(moveCache, MoveCacheSize, promises[pid].key,
                                  NetworkError(pid))
                    ELSE moveCache
  /\ activeRequests' = MapDelete(activeRequests, promises[pid].key)
  /\ promises' = [promises EXCEPT ![pid].state = "rejected", ![pid].value = NetworkError(pid)]
  /\ lastSettle' = [pid |-> pid, ok |-> FALSE, key |-> promises[pid].key,
                    kind |-> promises[pid].kind, notified |-> promises[pid].waiters]
  /\ UNCHANGED <<rounds, abortControllerRef, pokemons, loading, error, lastWriter, cvars>>

\* The catch-callback of a request (timeout or transport error): the registry
\* entry is deleted and the error rethrown.
SettleError(pid) ==
  /\ pid \in 1..Len(promises)
  /\ promises[pid].state = "pending"
  /\ MicrotasksDone
  /\ activeRequests' = MapDelete(activeRequests, promises[pid].key)
  /\ promises' = [promises EXCEPT ![pid].state = "rejected", ![pid].value = NetworkError(pid),
                                  ![pid].stale = StarterAborted(pid)]
  /\ lastSettle' = [pid |-> pid, ok |-> FALSE, key |-> promises[pid].key,
                    kind |-> promises[pid].kind, notified |-> promises[pid].waiters]
  /\ UNCHANGED <<pokemonCache, moveCache, rounds, abortControllerRef,
                 pokemons, loading, error, lastWriter, cvars>>

\* A catch block that shows the error and leaves the loading flag set.
CatchKeepsLoading(r, err) ==
  /\ rounds' = [rounds EXCEPT ![r].pc = "done",
                              ![r].outcome = IF rounds[r].aborted THEN "dropped" ELSE "error"]
  /\ IF ~rounds[r].aborted
       THEN /\ error' = err.message
            /\ pokemons' = <<>>
            /\ lastWriter' = r
            /\ UNCHANGED loading
       ELSE UNCHANGED <<error, pokemons, loading, lastWriter>>

\* catch (err): the error is shown unless the round was aborted
Catch(r, err) ==
  /\ rounds' = [rounds EXCEPT ![r].pc = "done",
                              ![r].outcome = IF rounds[r].aborted THEN "dropped" ELSE "error"]
  /\ IF ~rounds[r].aborted
       THEN /\ error' = err.message
            /\ pokemons' = <<>>
            /\ loading' = FALSE
            /\ lastWriter' = r
       ELSE UNCHANGED <<error, pokemons, loading, lastWriter>>

\* A callback without the test for an empty moves list: indexing the empty
\* list gives undefined, and reading its move property throws.
MoveCallbackNoGuard(h, p, pick) ==
  IF p.type # "pokemon"
    THEN [h |-> h, handle |-> Settled(TypeErrorMoves)]
  ELSE IF Len(p.moves) = 0
    THEN [h |-> h, handle |-> Settled(TypeErrorMoves)]
  ELSE GetMove(h, p.moves[pick], p.moves[pick])

\* The callback mapped over [p1, p2], up to its await
MoveCallback(h, p, pick) ==
  IF p.type # "pokemon"
    THEN [h |-> h, handle |-> Settled(TypeErrorMoves)]
  ELSE IF Len(p.moves) = 0
    THEN [h |-> h, handle |-> Settled(Sentinel)]
  ELSE GetMove(h, p.moves[pick], p.moves[pick])

Picks(p) == IF p.type = "pokemon" /\ Len(p.moves) > 0 THEN 1..Len(p.moves) ELSE {1}

\* getTwoRandomPokemons resumes after Promise.all of the two getPokemon calls
ContinuePokemons(r) ==
  /\ r \in 1..Len(rounds)
  /\ rounds[r].pc = "awaitPokemons"
  /\ lastSettle' = NoSettle
  /\ \/ /\ \E i \in Rejected(promises, rounds[r].h) :
             Catch(r, HandleValue(promises, rounds[r].h[i]))
        /\ UNCHANGED <<activeRequests, promises>>
     \/ /\ AllFulfilled(promises, rounds[r].h)
        /\ rounds[r].aborted
        /\ rounds' = [rounds EXCEPT ![r].pc = "done", ![r].outcome = "returned"]
        /\ UNCHANGED <<activeRequests, promises, error, pokemons, loading, lastWriter>>
     \/ /\ AllFulfilled(promises, rounds[r].h)
        /\ ~rounds[r].aborted
        /\ LET p1 == HandleValue(promises, rounds[r].h[1])
               p2 == HandleValue(promises, rounds[r].h[2])
           IN  \E k1 \in Picks(p1), k2 \in Picks(p2) :
                 LET h0 == [ar |-> activeRequests, pr |-> promises]
                     c1 == MoveCallback(h0, p1, k1)
                     c2 == MoveCallback(c1.h, p2, k2)
                     hd1 == Stamp(c1.handle, NCalls(rounds) + 1)
                     hd2 == Stamp(c2.handle, NCalls(rounds) + 1 +
                                               (IF c1.handle.fn = "none" THEN 0 ELSE 1))
                 IN  /\ rounds' = [rounds EXCEPT ![r].pc = "awaitMoves",
                                                 ![r].p = <<p1, p2>>,
                                                 ![r].mh = <<hd1, hd2>>]
                     /\ activeRequests' = c2.h.ar
                     /\ promises' = Register(Register(c2.h.pr, hd1), hd2)
        /\ UNCHANGED <<error, pokemons, loading, lastWriter>>
  /\ UNCHANGED <<pokemonCache, moveCache, abortControllerRef, cvars>>

\* pokemonsWithMoves of round r, once its moves are fulfilled
Pairs(r) ==
  [i \in 1..2 |-> [pokemon |-> rounds[r].p[i],
                   move |-> HandleValue(promises, rounds[r].mh[i])]]

\* A completion that does not test the abort signal.
ApplyAlways(r) ==
  /\ pokemons' = Pairs(r)
  /\ loading' = FALSE
  /\ lastWriter' = r
  /\ UNCHANGED error

\* if (!abortController.signal.aborted) { setPokemons; setLoading(false) }
Apply(r) ==
  IF ~rounds[r].aborted
    THEN /\ pokemons' = Pairs(r)
         /\ loading' = FALSE
         /\ lastWriter' = r
         /\ UNCHANGED error
    ELSE UNCHANGED <<error, pokemons, loading, lastWriter>>

\* getTwoRandomPokemons resumes after Promise.all of the mapped callbacks
ContinueMoves(r) ==
  /\ r \in 1..Len(rounds)
  /\ rounds[r].pc = "awaitMoves"
  /\ lastSettle' = NoSettle
  /\ \/ \E i \in Rejected(promises, rounds[r].mh) :
          Catch(r, HandleValue(promises, rounds[r].mh[i]))
     \/ /\ AllFulfilled(promises, rounds[r].mh)
        /\ rounds' = [rounds EXCEPT ![r].pc = "done",
                                    ![r].outcome = IF rounds[r].aborted THEN "dropped" ELSE "ok"]
        /\ Apply(r)
  /\ UNCHANGED <<pokemonCache, moveCache, activeRequests, promises,
                 abortControllerRef, cvars>>

\* The cleanup of the effect: the current controller is aborted
EffectCleanup ==
  /\ abortControllerRef # 0
  /\ ~rounds[abortControllerRef].aborted
  /\ rounds' = Abort(rounds, abortControllerRef)
  /\ lastSettle' = NoSettle
  /\ UNCHANGED <<pokemonCache, moveCache, activeRequests, promises, abortControllerRef,
                 pokemons, loading, error, lastWriter, cvars>>

Next ==
  /\ \/ \E id1, id2 \in Ids : StartRound(id1, id2)
     \/ \E pid \in 1..Len(promises) : SettleOk(pid)
     \/ \E pid \in 1..Len(promises) : SettleError(pid)
     \/ \E r \in 1..Len(rounds) : ContinuePokemons(r)
     \/ \E r \in 1..Len(rounds) : ContinueMoves(r)
     \/ EffectCleanup
  /\ UNCHANGED bvars

Init == InitProgram /\ InitCacheObject /\ maxSize = 1 /\ battle = NoBattle

Spec == Init /\ [][Next]_vars

\* The component stays mounted: the effect's cleanup never runs.
NextLive ==
  /\ \/ \E id1, id2 \in Ids : StartRound(id1, id2)
     \/ \E pid \in 1..Len(promises) : SettleOk(pid)
     \/ \E pid \in 1..Len(promises) : SettleError(pid)
     \/ \E r \in 1..Len(rounds) : ContinuePokemons(r)
     \/ \E r \in 1..Len(rounds) : ContinueMoves(r)
  /\ UNCHANGED bvars

\* Every started request settles (axios answers or times out), and a
\* continuation queued as a microtask runs.
Fairness ==
  /\ WF_vars(/\ \E pid \in 1..Len(promises) : SettleOk(pid) \/ SettleError(pid)
             /\ UNCHANGED bvars)
  /\ WF_vars(/\ \E r \in 1..Len(rounds) : ContinuePokemons(r) \/ ContinueMoves(r)
             /\ UNCHANGED bvars)

SpecLive == Init /\ [][NextLive]_vars /\ Fairness

InitCache ==
  InitProgram /\ InitCacheObject /\ maxSize \in 1..MaxCapacity /\ battle = NoBattle

SpecCache == InitCache /\ [][NextCache]_vars

\* determineBattleOutcome is applied to two arbitrary PokemonWithMove.
InitBattle ==
  /\ InitProgram /\ InitCacheObject /\ maxSize = 1
  /\ \E a, b \in BattleInputs : battle = [p1 |-> a, p2 |-> b, outcome |-> NotComputed]

NextBattle == Determine /\ UNCHANGED <<cvars, pvars>>

SpecBattle == InitBattle /\ [][NextBattle]_vars

\* ------------------------------------------------- claims about the Cache
HeldBefore == MapKeys(lastCall.before)

\* C4: after set calls (keys may repeat, no clear) on more than maxSize
\* distinct keys, the cache holds exactly maxSize entries.
C4_ExactlyCapacityAfterOverflow ==
  (~cleared /\ Cardinality(everSet) > maxSize) => Len(cache) = maxSize

\* C5: set evicts only when the key is new and the cache is at capacity; a set
\* on a key already present only overwrites that key's value, every other
\* entry stays and the number of entries is unchanged.
C5_OverwriteOnlyOverwrites ==
  lastCall.op = "set" =>
    /\ (HeldBefore \ MapKeys(cache) # {}) =>
         (lastCall.key \notin HeldBefore /\ Len(lastCall.before) >= maxSize)
    /\ lastCall.key \in HeldBefore =>
         /\ MapKeys(cache) = HeldBefore
         /\ Len(cache) = Len(lastCall.before)
         /\ MapGet(cache, lastCall.key) = lastCall.result
         /\ \A k \in HeldBefore \ {lastCall.key} :
              MapGet(cache, k) = MapGet(lastCall.before, k)

\* C6: eviction is FIFO by insertion. Whenever set evicts, the key removed is
\* the one that entered the Map earliest among the entries held before the
\* call; the Map's first key (the next to be evicted) is always the held key
\* of smallest insertion tick; a get changes neither the contents, nor their
\* order, nor the insertion ticks.
C6_EvictionIsFifo ==
  /\ (lastCall.op = "set" /\ lastCall.firstKey # UndefinedKey) =>
       /\ lastCall.firstKey \in HeldBefore
       /\ \A k \in HeldBefore : lastCall.stamps[lastCall.firstKey] <= lastCall.stamps[k]
       /\ HeldBefore \ MapKeys(cache) \subseteq {lastCall.firstKey}
  /\ \A i, j \in 1..Len(cache) :
       i < j => insertedAt[cache[i].key] < insertedAt[cache[j].key]
  /\ lastCall.op = "get" =>
       /\ cache = lastCall.before
       /\ insertedAt = lastCall.stamps
       /\ lastCall.result = MapGet(lastCall.before, lastCall.key)

\* A set on a new key evicted the oldest of two or more held entries.
C6_Witness ==
  /\ lastCall.op = "set"
  /\ lastCall.firstKey # UndefinedKey
  /\ lastCall.firstKey # lastCall.key
  /\ Len(lastCall.before) >= 2
  /\ ~MapHas(cache, lastCall.firstKey)
  /\ MapHas(cache, lastCall.key)

\* C7: with maxSize >= 1, after any get, set and clear calls the number of
\* entries never exceeds maxSize.
C7_AtMostCapacity == maxSize >= 1 => Len(cache) <= maxSize

\* A full cache whose last set evicted, after a clear had been made.
C7_Witness ==
  /\ cleared
  /\ lastCall.op = "set"
  /\ lastCall.firstKey # UndefinedKey
  /\ Len(cache) = maxSize
  /\ maxSize >= 2
\* ------------------------------------- claims about getPokemon and getMove
\* the calls of getPokemon / getMove made so far, as the rounds hold them
Calls ==
  {rounds[r].h[i] : r \in 1..Len(rounds), i \in 1..2} \cup
  {hd \in UNION {{rounds[r].mh[i] : i \in 1..Len(rounds[r].mh)} : r \in 1..Len(rounds)} :
     hd.fn # "none"}

CacheOf(kind) == IF kind = "pokemon" THEN pokemonCache ELSE moveCache

FetcherOf(kind) == IF kind = "pokemon" THEN "getPokemon" ELSE "getMove"

AllKeys == {promises[i].key : i \in 1..Len(promises)}

\* C1: a call made for a key that is not cached while a request for that key
\* has not settled joins that request and starts none: no key ever has two
\* unsettled producer invocations.
C1_ProducerInvokedOnce ==
  /\ \A hd \in Calls :
       (hd.seen # 0 /\ ~hd.cachedBefore) => (hd.pid = hd.seen /\ hd.started = 0)
  /\ \A k \in AllKeys : Cardinality(PendingFor(promises, k)) <= 1

\* Two calls of one fetcher hold the same request, still pending: one started
\* it, the other came while it was pending.
C1_Witness ==
  \E a, b \in Calls :
    /\ a.started = 1 /\ b.started = 0 /\ b.seen = a.pid /\ b.pid = a.pid
    /\ a.fn = b.fn
    /\ promises[a.pid].state = "pending"

\* C2: when a request fails its key is neither cached by it nor left in the
\* registry, and the next call of the same fetcher for that key (the failed
\* request being the latest made for the key) invokes the producer again.
C2_FailureNotCached ==
  /\ (lastSettle.pid # 0 /\ ~lastSettle.ok) =>
       /\ ~MapHas(CacheOf(lastSettle.kind), lastSettle.key)
       /\ ~MapHas(activeRequests, lastSettle.key)
  /\ \A hd \in Calls :
       (hd.priorState = "rejected" /\ hd.fn = FetcherOf(promises[hd.prior].kind)) =>
         (hd.started = 1 /\ hd.pid # hd.prior /\ ~hd.cachedBefore)

\* A call found the latest request for its key rejected and started another.
C2_Witness ==
  \E hd \in Calls :
    /\ hd.priorState = "rejected"
    /\ hd.fn = FetcherOf(promises[hd.prior].kind)
    /\ hd.started = 1
    /\ promises[hd.pid].key = promises[hd.prior].key

\* C3: a call for a key present in the fetcher's cache returns the cached
\* value at once, invokes no producer and registers no request.
C3_CacheHitNoRequest ==
  \A hd \in Calls :
    hd.cachedBefore =>
      /\ hd.pid = 0
      /\ hd.value = hd.cachedValue
      /\ hd.started = 0
      /\ ~hd.registered

\* A getPokemon and a getMove were each served from their cache.
C3_Witness ==
  /\ \E hd \in Calls : hd.cachedBefore /\ hd.fn = "getPokemon" /\ hd.value.type = "pokemon"
  /\ \E hd \in Calls : hd.cachedBefore /\ hd.fn = "getMove" /\ hd.value.type = "move"

\* C9: the registry holds exactly the keys whose request has not settled, each
\* mapped to that one request; no key has two unsettled requests; the entry of
\* a request is gone in the state its settlement produces, also when the
\* round that started it has been aborted.
C9_RegistryIsPendingRequests ==
  /\ \A k \in AllKeys : Cardinality(PendingFor(promises, k)) <= 1
  /\ \A i, j \in 1..Len(activeRequests) :
       activeRequests[i].key = activeRequests[j].key => i = j
  /\ MapKeys(activeRequests) =
       {promises[i].key : i \in {j \in 1..Len(promises) : promises[j].state = "pending"}}
  /\ \A i \in 1..Len(activeRequests) :
       /\ activeRequests[i].value \in 1..Len(promises)
       /\ promises[activeRequests[i].value].key = activeRequests[i].key
       /\ promises[activeRequests[i].value].state = "pending"
  /\ lastSettle.pid # 0 => ~MapHas(activeRequests, lastSettle.key)

\* A request settled whose starting round had been aborted before, while
\* another request was still registered.
C9_Witness ==
  /\ lastSettle.pid # 0
  /\ ~MapHas(activeRequests, lastSettle.key)
  /\ Len(activeRequests) >= 1
  /\ \E r \in 1..Len(rounds) :
       /\ rounds[r].aborted
       /\ \E hd \in {rounds[r].h[1], rounds[r].h[2]} :
            hd.pid = lastSettle.pid /\ hd.started = 1

\* the handles round r holds, with what the round read from them (NoValue
\* while it has not resumed)
Held(r) ==
  {[hd |-> rounds[r].h[i],
    read |-> IF rounds[r].p = <<>> THEN NoValue ELSE rounds[r].p[i]] : i \in 1..2}
  \cup
  {[hd |-> rounds[r].mh[i],
    read |-> IF r = lastWriter /\ rounds[r].outcome = "ok" /\ Len(pokemons) = 2
               THEN pokemons[i].move ELSE NoValue] : i \in 1..Len(rounds[r].mh)}

\* C10: a caller that called while a request for its key was pending observes
\* the outcome of that request, as the caller that started it does: the same
\* state, the identical value or the identical error, also in what the round
\* has read from it.
C10_JoinersShareOutcome ==
  \A r \in 1..Len(rounds) : \A x \in Held(r) :
    (x.hd.fn # "none" /\ x.hd.seen # 0 /\ ~x.hd.cachedBefore) =>
      /\ HandleState(promises, x.hd) = promises[x.hd.seen].state
      /\ HandleValue(promises, x.hd) = promises[x.hd.seen].value
      /\ x.read # NoValue => x.read = promises[x.hd.seen].value
      /\ \A s \in 1..Len(rounds) : \A y \in Held(s) :
           (y.hd.started = 1 /\ y.hd.pid = x.hd.seen) =>
             /\ HandleState(promises, y.hd) = HandleState(promises, x.hd)
             /\ HandleValue(promises, y.hd) = HandleValue(promises, x.hd)
             /\ (x.read # NoValue /\ y.read # NoValue) => x.read = y.read

\* A caller started a request, another joined it while it was pending, it
\* succeeded and both have read its value.
C10_Witness ==
  \E r, s \in 1..Len(rounds) : \E x \in Held(r), y \in Held(s) :
    /\ x.hd.fn # "none" /\ x.hd.seen # 0 /\ ~x.hd.cachedBefore
    /\ y.hd.started = 1 /\ y.hd.pid = x.hd.seen
    /\ promises[x.hd.seen].state = "fulfilled"
    /\ x.read # NoValue /\ y.read # NoValue

\* A request joined by a caller of another round has failed.
C10_FailureReached ==
  \E r, s \in 1..Len(rounds) : \E x \in Held(r), y \in Held(s) :
    /\ r # s
    /\ x.hd.fn # "none" /\ x.hd.seen # 0 /\ ~x.hd.cachedBefore
    /\ y.hd.started = 1 /\ y.hd.pid = x.hd.seen
    /\ promises[x.hd.seen].state = "rejected"

\* ------------------------------------------------- claims about the rounds
\* C8: pokemons, loading and error are only ever written by the newest round.
\* Once it has completed they show its two pairs; if it failed, its error;
\* while it has not completed (or its result was dropped) they show loading
\* and no error, whatever older rounds did meanwhile.
C8_OnlyNewestRoundVisible ==
  /\ lastWriter = abortControllerRef
  /\ abortControllerRef # 0 =>
       LET cur == rounds[abortControllerRef]
       IN  /\ cur.outcome = "ok" =>
                /\ loading = FALSE /\ error = Null
                /\ Len(pokemons) = 2
                /\ \A i \in 1..2 :
                     /\ pokemons[i].pokemon = cur.p[i]
                     /\ pokemons[i].pokemon.name = ToString(cur.ids[i])
                     /\ pokemons[i].move = HandleValue(promises, cur.mh[i])
           /\ cur.outcome = "error" =>
                (loading = FALSE /\ error # Null /\ pokemons = <<>>)
           /\ cur.outcome \notin {"ok", "error"} => (loading = TRUE /\ error = Null)

\* Round 2 has completed and is shown, and round 1, superseded while its
\* requests were pending, resumed afterwards and its result was dropped.
C8_Witness ==
  /\ abortControllerRef = 2
  /\ rounds[2].outcome = "ok"
  /\ rounds[1].outcome \in {"dropped", "returned"}
  /\ rounds[1].ids # rounds[2].ids
\* ------------------------------------------ claims about the battle outcome
\* the side the tie-break rule names as winner: 1, 2, or 0 for a tie
RuleWinner(w1, w2) ==
  IF w1 # NullPower /\ w2 # NullPower
    THEN (IF w1[1] > w2[1] THEN 1 ELSE IF w2[1] > w1[1] THEN 2 ELSE 0)
  ELSE IF w1 # NullPower THEN 1
  ELSE IF w2 # NullPower THEN 2
  ELSE 0

\* C11: determineBattleOutcome follows the tie-break rule for every pair of
\* powers: unequal numbers, the higher wins; equal numbers, a tie; exactly one
\* absent, the side with a number (0 included) wins; both absent, a tie. The
\* decisive-blow message names the winner, the winner's move and the loser.
C11_TieBreakRule ==
  battle.outcome # NotComputed =>
    LET w == RuleWinner(battle.p1.move.power, battle.p2.move.power)
        a == battle.p1
        b == battle.p2
    IN  /\ w = 0 => battle.outcome = Tie
        /\ w = 1 => battle.outcome =
             DecisiveBlow(a.pokemon.name, a.move.name, b.pokemon.name)
        /\ w = 2 => battle.outcome =
             DecisiveBlow(b.pokemon.name, b.move.name, a.pokemon.name)
        /\ w # 0 => battle.outcome # Tie

\* The outcome was computed for a power of 0 against an absent power: the
\* side with the 0 wins.
C11_Witness ==
  /\ battle.outcome = "EEVEE lands a decisive blow with GROWL, knocking out PIKACHU!"
  /\ battle.p1.move.power = NullPower
  /\ battle.p2.move.power = <<0>>
\* ------------------------------------------------ claims about call order
\* C12: the call that finds its key neither cached nor pending is the one
\* that invokes the producer, every other call starts nothing; when a request
\* settles, the callers holding it are notified in the order in which they
\* called, the one that started it first.
C12_StarterRunsJoinersInOrder ==
  /\ \A hd \in Calls :
       /\ hd.started = 1 <=> (~hd.cachedBefore /\ hd.seen = 0)
       /\ hd.started \in {0, 1}
       /\ hd.started = 1 =>
            /\ promises[hd.pid].kind = (IF hd.fn = "getPokemon" THEN "pokemon" ELSE "move")
            /\ promises[hd.pid].key = hd.key
            /\ promises[hd.pid].waiters[1] = hd.seq
  /\ \A pid \in 1..Len(promises) :
       LET w == promises[pid].waiters
       IN  /\ \A i, j \in 1..Len(w) : i < j => w[i] < w[j]
           /\ {w[i] : i \in 1..Len(w)} = {hd.seq : hd \in {c \in Calls : c.pid = pid}}
  /\ lastSettle.pid # 0 => lastSettle.notified = promises[lastSettle.pid].waiters

\* A request that three calls hold has settled: the starter and two joiners
\* were notified.
C12_Witness ==
  /\ lastSettle.pid # 0
  /\ Len(lastSettle.notified) >= 3
\* --------------------------------------------- claims about cache changes
\* the cache after a step holds k with value v, and otherwise only entries
\* the cache before held
StoredOnly(before, after, k, v) ==
  /\ MapGet(after, k) = v
  /\ \A j \in MapKeys(after) \ {k} : MapHas(before, j) /\ MapGet(after, j) = MapGet(before, j)

\* C13: a step changes a cache only if it is the successful settlement of a
\* request, which stores that request's result under its key in its fetcher's
\* cache and leaves the other cache alone; calls that hit, join or start, and
\* failed settlements, change neither cache; a step whose calls are all cache
\* hits leaves the registry and the requests unchanged.
C13_CacheChangesOnlyOnSuccess ==
  [][ /\ (pokemonCache' # pokemonCache \/ moveCache' # moveCache) =>
           (lastSettle'.pid # 0 /\ lastSettle'.ok)
      /\ (lastSettle'.pid # 0 /\ lastSettle'.ok) =>
           /\ promises[lastSettle'.pid].state = "pending"
           /\ promises'[lastSettle'.pid].state = "fulfilled"
           /\ IF lastSettle'.kind = "pokemon"
                THEN /\ moveCache' = moveCache
                     /\ StoredOnly(pokemonCache, pokemonCache', lastSettle'.key,
                                   promises'[lastSettle'.pid].value)
                ELSE /\ pokemonCache' = pokemonCache
                     /\ StoredOnly(moveCache, moveCache', lastSettle'.key,
                                   promises'[lastSettle'.pid].value)
      /\ (lastSettle'.pid = 0 /\ \A hd \in Calls' \ Calls : hd.cachedBefore) =>
           (activeRequests' = activeRequests /\ promises' = promises)
    ]_vars

\* A failed settlement has just happened with both caches populated, after a
\* successful one had evicted an entry of the pokemon cache.
C13_Witness ==
  /\ lastSettle.pid # 0
  /\ ~lastSettle.ok
  /\ Len(pokemonCache) = PokemonCacheSize
  /\ Len(moveCache) >= 1
  /\ \E i \in 1..Len(promises) :
       /\ promises[i].kind = "pokemon" /\ promises[i].state = "fulfilled"
       /\ ~MapHas(pokemonCache, promises[i].key)
\* ------------------------------------------- claims about stale requests
\* C14: a request started by a round that was aborted before it settled is
\* not cancelled: while pending it stays registered, and when it succeeds its
\* result is in its fetcher's cache and its registry entry is gone in the
\* state its settlement produces; a later call that finds that result cached
\* gets it at once and starts no request.
C14_StaleRequestsFillCache ==
  /\ \A pid \in 1..Len(promises) :
       /\ promises[pid].state = "pending" =>
            (MapHas(activeRequests, promises[pid].key) /\
             MapGet(activeRequests, promises[pid].key) = pid)
       /\ (lastSettle.pid = pid /\ lastSettle.ok /\ promises[pid].stale) =>
            /\ MapGet(CacheOf(promises[pid].kind), promises[pid].key) = promises[pid].value
            /\ ~MapHas(activeRequests, promises[pid].key)
  /\ \A hd \in Calls :
       (hd.cachedBefore /\ promises[hd.cachedValue.ref].stale) =>
         /\ hd.pid = 0
         /\ hd.started = 0
         /\ hd.value = promises[hd.cachedValue.ref].value

\* A getPokemon call of round 2 was served from the cache with the result of
\* a request that round 1 started and that settled after round 1 was aborted.
C14_Witness ==
  /\ Len(rounds) = 2
  /\ \E i \in 1..2 :
       LET hd == rounds[2].h[i]
       IN  /\ hd.cachedBefore /\ hd.pid = 0 /\ hd.started = 0
           /\ promises[hd.value.ref].stale
           /\ \E j \in 1..2 : rounds[1].h[j].pid = hd.value.ref /\ rounds[1].h[j].started = 1
\* ------------------------------------------------ claims about the rounds
\* history: a fetch of round r, in the phase r is waiting in, has failed
FetchFailed(r) ==
  \/ rounds[r].pc = "awaitPokemons" /\ Rejected(promises, rounds[r].h) # {}
  \/ rounds[r].pc = "awaitMoves" /\ Rejected(promises, rounds[r].mh) # {}

\* C15: a round that has not been aborted and one of whose fetches has failed
\* is ready to resume, and the step that ends it sets error to a message,
\* pokemons to the empty list and loading to false; every start of a round
\* sets error to null and loading to true, whatever the earlier rounds left.
C15_FailureShownAndRetryClears ==
  /\ [](\A r \in 1..Len(rounds) : FetchFailed(r) => Resumable(r))
  /\ [][ /\ \A r \in 1..Len(rounds) :
             (FetchFailed(r) /\ ~rounds[r].aborted /\ rounds'[r].pc # rounds[r].pc) =>
               /\ rounds'[r].pc = "done" /\ rounds'[r].outcome = "error"
               /\ error' # Null /\ error' \in {"Network Error", TypeErrorMoves.message}
               /\ pokemons' = <<>>
               /\ ~loading'
         /\ Len(rounds') > Len(rounds) =>
               /\ error' = Null
               /\ loading'
               /\ abortControllerRef' = Len(rounds')
               /\ ~rounds'[abortControllerRef'].aborted ]_vars

\* Round 1 ended with an error, the retry was started and ended with its two
\* pairs on screen and no error.
C15_Witness ==
  /\ Len(rounds) = 2
  /\ rounds[1].outcome = "error"
  /\ rounds[2].outcome = "ok"
  /\ error = Null /\ ~loading /\ Len(pokemons) = 2

\* The result of round n is what the screen shows.
Shown(n) ==
  /\ ~loading
  /\ lastWriter = n
  /\ \/ rounds[n].outcome = "ok" /\ pokemons = Pairs(n) /\ error = Null
     \/ rounds[n].outcome = "error" /\ pokemons = <<>> /\ error # Null

\* C16: with every request settling and the component mounted, from some
\* point on no newer round starts and the screen shows the most recently
\* started round with loading false: its two pairs, or its error; so loading
\* does not stay true forever.
C16_LoadingEnds ==
  <>[](abortControllerRef = 0 \/ Shown(abortControllerRef))

\* Round 1 was superseded while it waited, and round 2 has ended and is shown.
C16_Witness ==
  /\ Len(rounds) = 2
  /\ rounds[1].aborted /\ rounds[1].outcome \in {"returned", "dropped"}
  /\ rounds[2].pc = "done"
  /\ Shown(2)

\* C17: for a Pokemon with no moves the callback makes no getMove call and
\* yields the sentinel move, which is what the screen shows for it when the
\* round is applied; a round that ends with an error in its move phase does so
\* because a getMove call failed, never because of the sentinel.
C17_ZeroMovesYieldSentinel ==
  \A r \in 1..Len(rounds) :
    /\ \A i \in 1..Len(rounds[r].mh) :
         (rounds[r].p[i].type = "pokemon" /\ Len(rounds[r].p[i].moves) = 0) =>
           /\ rounds[r].mh[i].fn = "none"
           /\ rounds[r].mh[i].pid = 0
           /\ rounds[r].mh[i].started = 0
           /\ HandleState(promises, rounds[r].mh[i]) = "fulfilled"
           /\ HandleValue(promises, rounds[r].mh[i]) = Sentinel
           /\ Sentinel.name = "No moves available" /\ Sentinel.power = NullPower
           /\ (rounds[r].outcome = "ok" /\ lastWriter = r /\ pokemons # <<>>) =>
                pokemons[i].move = Sentinel
    /\ (rounds[r].outcome = "error" /\ rounds[r].mh # <<>>) =>
         \E i \in Rejected(promises, rounds[r].mh) :
           rounds[r].mh[i].fn = "getMove" \/ rounds[r].p[i].type # "pokemon"
    /\ (rounds[r].pc = "done" /\ ~rounds[r].aborted /\ rounds[r].mh # <<>> /\
        \A i \in 1..2 : rounds[r].mh[i].fn = "none" /\ rounds[r].p[i].type = "pokemon") =>
         rounds[r].outcome = "ok"

\* The screen shows a round that ended well, with the sentinel move for a
\* Pokemon that has no moves.
C17_Witness ==
  /\ abortControllerRef # 0
  /\ rounds[abortControllerRef].outcome = "ok"
  /\ lastWriter = abortControllerRef
  /\ \E i \in 1..Len(pokemons) :
       /\ pokemons[i].pokemon.type = "pokemon"
       /\ Len(pokemons[i].pokemon.moves) = 0
       /\ pokemons[i].move.name = NoMovesAvailable
       /\ pokemons[i].move.power = NullPower
\* ------------------------------------- claims about the shared registry
KindOf(fn) == IF fn = "getPokemon" THEN "pokemon" ELSE "move"

\* C18: every call of getPokemon follows a request made by the Pokemon
\* producer and yields a Pokemon, every call of getMove follows a request made
\* by the move producer and yields a Move, also when a move is named by the
\* decimal string of an id.
C18_FetchersDoNotInterfere ==
  \A hd \in Calls :
    /\ hd.pid # 0 => promises[hd.pid].kind = KindOf(hd.fn)
    /\ HandleState(promises, hd) = "fulfilled" =>
         HandleValue(promises, hd).type = KindOf(hd.fn)

\* C19: a registered request's key is not in the cache of the fetcher that
\* made the request; a call registers a request only when its cache missed,
\* and the state a successful settlement produces has the key in that cache
\* and out of the registry.
C19_CachedNeverPending ==
  /\ \A i \in 1..Len(activeRequests) :
       ~MapHas(CacheOf(promises[activeRequests[i].value].kind), activeRequests[i].key)
  /\ \A hd \in Calls : (hd.started = 1 \/ hd.registered) => ~hd.cachedBefore
  /\ (lastSettle.pid # 0 /\ lastSettle.ok) =>
       /\ MapHas(CacheOf(lastSettle.kind), lastSettle.key)
       /\ ~MapHas(activeRequests, lastSettle.key)

\* A successful settlement has just cached its key and removed it from the
\* registry while another request is registered, and some registered move
\* request has a key that the Pokemon cache holds.
C19_Witness ==
  /\ lastSettle.pid # 0 /\ lastSettle.ok
  /\ MapHas(CacheOf(lastSettle.kind), lastSettle.key)
  /\ \E i \in 1..Len(activeRequests) :
       /\ promises[activeRequests[i].value].kind = "move"
       /\ MapHas(pokemonCache, activeRequests[i].key)
====
